---- MODULE Spec2Model ----
(***************************************************************************)
(* SitemapSageAI: the sitemap retrieval-and-parsing pipeline               *)
(* (sitemap_analyzer.py), the clusterer (openai_client.py) and the         *)
(* background analysis job (app.py).                                       *)
(*                                                                         *)
(* Text is modelled by what the code can observe of it.  An HTTP body is a *)
(* record [k, root, elems]: k is the kind of text ("empty", "blank" =      *)
(* whitespace only, "garbage" = neither XML nor JSON, "xml", "jsonlist",   *)
(* "jsondict"), root the plain tag of the XML root and elems the elements  *)
(* the lookup paths of parse_sitemap find under it (for a JSON list: its   *)
(* items).  The text of a child element is a string; NoElem stands for a   *)
(* child element (or JSON key) that is absent.                             *)
(***************************************************************************)
EXTENDS Integers, Sequences, FiniteSets, TLC

\* ------------------------------------------------------------------ bounds
MaxEntries == 4      \* longest sitemap index served at the primary URL
MaxDepth == 3        \* nested parse_sitemap calls the interpreter allows

\* --------------------------------------------------------------- constants
IndexCap == 3        \* sitemap_elements[:3]

NoElem == "<absent>"
None == "<None>"

\* ------------------------------------------------------------------- texts
\* str.strip() on the element texts the model uses.
Strip(t) ==
    CASE t = " " -> ""
      [] t = " https://d1.com/a " -> "https://d1.com/a"
      [] t = " 2024-01-05 " -> "2024-01-05"
      [] OTHER -> t

\* `el is not None and el.text`, then el.text.strip(): the value a lookup
\* loop leaves in its variable (None when no path matched with a text).
FindText(t) == IF t = NoElem \/ t = "" THEN None ELSE Strip(t)

\* Python truthiness of the looked-up value (`if loc_text:`).
Truthy(v) == v # None /\ v # ""

\* -------------------------------------------------------------- the Fetcher
PrimaryUrl == "https://site/sitemap.xml"
SubUrl == "https://site/sub.xml"
GoneUrl == "https://site/gone.xml"
SitemapUrls == {PrimaryUrl, SubUrl, GoneUrl}

Elem(loc, lastmod) == [loc |-> loc, lastmod |-> lastmod]
Body(k, root, elems) == [k |-> k, root |-> root, elems |-> elems]
Response(gz, json, body) == [gz |-> gz, json |-> json, body |-> body]

\* No text: a local that was not assigned, the content of a failed fetch.
NoContent == Body("none", "none", <<>>)

Raised == [raised |-> TRUE, content |-> NoContent]
Returned(content) == [raised |-> FALSE, content |-> content]

\* The XML string built from a JSON list: one <url> per dict item that has
\* a 'url' key, with its lastmod when the item has one.
JsonItemHasUrl(item) == item.loc # NoElem
JsonToXml(body) ==
    Body("xml", "urlset", SelectSeq(body.elems, JsonItemHasUrl))

IsBlankText(body) == body.k \in {"empty", "blank"}

\* fetch_sitemap(url): net is the outcome of requests.get and
\* raise_for_status, resp what the server answers.  resp.gz says whether the
\* URL ends in .gz or the content type names gzip ("valid": the payload
\* decompresses to resp.body, "corrupt": GzipFile.read raises).
fetch_sitemap(net, resp) ==
    IF net = "error" THEN Raised
    ELSE IF resp.gz = "corrupt" THEN Raised
    ELSE IF resp.gz = "valid" THEN Returned(resp.body)
    ELSE IF resp.json /\ resp.body.k = "jsonlist" THEN Returned(JsonToXml(resp.body))
    ELSE IF IsBlankText(resp.body) THEN Raised
    ELSE Returned(resp.body)

\* --------------------------------------------------------------- the Parser
\* The text handed to parse_sitemap as a sequence of pieces: "<?xml" opens
\* an XML declaration, "?>" closes one, "x" is any other text, and "?xml" is
\* what is left of an opener whose "<" was cut off.
Opener == "<?xml"
Closer == "?>"

\* str.find(piece, from): the first position at or after `from`, 0 when
\* there is none (Python's -1).
Find(text, piece, from) ==
    LET hits == {i \in from..Len(text) : text[i] = piece}
    IN  IF hits = {} THEN 0 ELSE CHOOSE i \in hits : \A j \in hits : i <= j

\* The clean-up before ET.fromstring: the text up to the first "?>", then
\* the text after the "?>" that follows the next "<?xml".  With no "?>"
\* after that opener, find gives -1 and the slice starts one character into
\* the opener.
CleanDeclarations(xml_content) ==
    IF Find(xml_content, Opener, 1) = 0 \/ Find(xml_content, Closer, 1) = 0
    THEN xml_content
    ELSE LET first_decl_end == Find(xml_content, Closer, 1)
             next_decl_start == Find(xml_content, Opener, first_decl_end + 1)
             next_decl_end == Find(xml_content, Closer, next_decl_start)
         IN  IF next_decl_start = 0 THEN xml_content
             ELSE IF next_decl_end = 0
             THEN SubSeq(xml_content, 1, first_decl_end) \o <<"?xml">>
                      \o SubSeq(xml_content, next_decl_start + 1, Len(xml_content))
             ELSE SubSeq(xml_content, 1, first_decl_end)
                      \o SubSeq(xml_content, next_decl_end + 1, Len(xml_content))

\* ET.fromstring succeeds.
ParsesAsXml(content) == content.k = "xml"

is_sitemap_index(content) == content.root = "sitemapindex"

HasLocElement(e) == e.loc # NoElem /\ e.loc # ""

\* The loop over url_elements: one record per element with a loc.
HasLoc(e) == Truthy(FindText(e.loc))
UrlData(e) ==
    [loc |-> FindText(e.loc),
     lastmod |-> IF FindText(e.lastmod) = None THEN NoElem ELSE FindText(e.lastmod)]
RECURSIVE DropRepeatedLoc(_)
DropRepeatedLoc(records) ==
    IF records = <<>> THEN <<>>
    ELSE LET front == SubSeq(records, 1, Len(records) - 1)
             last == records[Len(records)]
         IN  IF \E j \in 1..Len(front) : front[j].loc = last.loc
             THEN DropRepeatedLoc(front)
             ELSE Append(DropRepeatedLoc(front), last)
UrlsetRecordsUnique(elems) ==
    LET kept == SelectSeq(elems, HasLoc)
    IN  DropRepeatedLoc([j \in 1..Len(kept) |-> UrlData(kept[j])])

UrlsetRecords(elems) ==
    LET kept == SelectSeq(elems, HasLoc)
    IN  [j \in 1..Len(kept) |-> UrlData(kept[j])]

Min(a, b) == IF a <= b THEN a ELSE b

ExpandedEntriesUncapped(elems) == elems

\* sitemap_elements[:3]
ExpandedEntries(elems) == SubSeq(elems, 1, Min(IndexCap, Len(elems)))

ExtendUnique(urls, sub_urls) ==
    urls \o SelectSeq(sub_urls, LAMBDA r : \A j \in 1..Len(urls) : urls[j] # r)

\* urls.extend(sub_urls)
Extend(urls, sub_urls) == urls \o sub_urls

SubSitemapErrorPropagates == FALSE

\* `except Exception` around the recursive fetch and parse of a sub-sitemap.
SubSitemapErrorIsCaught == TRUE

\* ------------------------------------------------------ Structural Analyzer
\* urlparse(url) on the page URLs of the model: netloc, and the path as its
\* tokens ("/", ".", or a run of word characters).  raises: urlparse throws
\* ValueError (an unbalanced bracket in the host).
UrlParts(raises, netloc, path) == [raises |-> raises, netloc |-> netloc, path |-> path]
urlparse(url) ==
    CASE url = "https://d1.com/" -> UrlParts(FALSE, "d1.com", <<"/">>)
      [] url = "https://d1.com/a" -> UrlParts(FALSE, "d1.com", <<"/", "a">>)
      [] url = "https://d2.com/blog/post.html" ->
             UrlParts(FALSE, "d2.com", <<"/", "blog", "/", "post", ".", "html">>)
      [] url = "https://d2.com/blog/.html" ->
             UrlParts(FALSE, "d2.com", <<"/", "blog", "/", ".", "html">>)
      [] url = "https://d3.com/a//b/" ->
             UrlParts(FALSE, "d3.com", <<"/", "a", "/", "/", "b", "/">>)
      [] url = "d1.com/page" -> UrlParts(FALSE, "", <<"d1", ".", "com", "/", "page">>)
      [] url = "http://[bad" -> UrlParts(TRUE, "", <<>>)
      [] OTHER -> UrlParts(FALSE, "", <<>>)      \* '' (record without loc)

IsWord(tok) == tok # "/" /\ tok # "."

\* re.sub(r'\.\w+$', '', path)
StripExtension(path) ==
    IF Len(path) >= 2 /\ path[Len(path) - 1] = "." /\ IsWord(path[Len(path)])
    THEN SubSeq(path, 1, Len(path) - 2)
    ELSE path

\* Number of non-empty components of path.split('/'): a component is a
\* maximal run of tokens other than "/".
RECURSIVE CountComponents(_, _)
CountComponents(path, inRun) ==
    IF path = <<>> THEN 0
    ELSE IF Head(path) = "/" THEN CountComponents(Tail(path), FALSE)
    ELSE (IF inRun THEN 0 ELSE 1) + CountComponents(Tail(path), TRUE)

\* len(extract_path_components(url))
extract_path_components(url) == CountComponents(StripExtension(urlparse(url).path), FALSE)

\* A dict is the sequence of its <<key, value>> items in insertion order.
DictHas(d, key) == \E j \in 1..Len(d) : d[j][1] = key
DictSetOne(d, key) ==
    IF DictHas(d, key)
    THEN [j \in 1..Len(d) |-> IF d[j][1] = key THEN <<key, 1>> ELSE d[j]]
    ELSE Append(d, <<key, 1>>)

\* d[key] = d.get(key, 0) + 1
DictInc(d, key) ==
    IF DictHas(d, key)
    THEN [j \in 1..Len(d) |-> IF d[j][1] = key THEN <<key, d[j][2] + 1>> ELSE d[j]]
    ELSE Append(d, <<key, 1>>)

RECURSIVE UnweightedSum(_)
UnweightedSum(d) == IF d = <<>> THEN 0 ELSE Head(d)[1] + UnweightedSum(Tail(d))

\* sum(depth * count for depth, count in path_depths.items())
RECURSIVE WeightedSum(_)
WeightedSum(d) == IF d = <<>> THEN 0 ELSE Head(d)[1] * Head(d)[2] + WeightedSum(Tail(d))

MaxItemKeyLast(d) ==
    LET best == CHOOSE j \in 1..Len(d) :
                    /\ \A k \in 1..Len(d) : d[k][2] <= d[j][2]
                    /\ \A k \in (j + 1)..Len(d) : d[k][2] < d[j][2]
    IN  d[best][1]

\* max(domains.items(), key=lambda x: x[1])[0]: the first item, in
\* insertion order, whose count no other item exceeds.
MaxItemKey(d) ==
    LET best == CHOOSE j \in 1..Len(d) :
                    /\ \A k \in 1..Len(d) : d[k][2] <= d[j][2]
                    /\ \A k \in 1..(j - 1) : d[k][2] < d[j][2]
    IN  d[best][1]

\* datetime.strptime over the three formats of the loop, on the lastmod
\* strings of the model: aware = the value carries an offset, instant = the
\* moment compared by min/max (UTC for aware values, yyyymmddhh), day = what
\* strftime('%Y-%m-%d') prints.
Parsed(ok, aware, instant, day) == [ok |-> ok, aware |-> aware, instant |-> instant, day |-> day]
strptime(date_str) ==
    CASE date_str = "2024-01-05" -> Parsed(TRUE, FALSE, 2024010500, "2024-01-05")
      [] date_str = "2023-06-01T10:00:00" -> Parsed(TRUE, FALSE, 2023060110, "2023-06-01")
      [] date_str = "2024-01-01T23:00:00-05:00" -> Parsed(TRUE, TRUE, 2024010204, "2024-01-01")
      [] date_str = "2024-01-02T01:00:00+05:00" -> Parsed(TRUE, TRUE, 2024010120, "2024-01-02")
      [] OTHER -> Parsed(FALSE, FALSE, 0, "")

\* 'lastmod' in url_data and url_data['lastmod']
HasLastmod(url_data) == url_data.lastmod # NoElem /\ url_data.lastmod # ""

\* The value the loop leaves in last_modified_dates.
ParsedDates(urls) ==
    LET dated == SelectSeq(urls, LAMBDA r : HasLastmod(r) /\ strptime(r.lastmod).ok)
    IN  [j \in 1..Len(dated) |-> strptime(dated[j].lastmod)]

\* max/min over datetimes raise TypeError when naive and aware values meet.
MixedDates(dates) ==
    /\ \E j \in 1..Len(dates) : dates[j].aware
    /\ \E j \in 1..Len(dates) : ~dates[j].aware
MaxDate(dates) == CHOOSE d \in {dates[j] : j \in 1..Len(dates)} :
                      \A j \in 1..Len(dates) : dates[j].instant <= d.instant
MinDate(dates) == CHOOSE d \in {dates[j] : j \in 1..Len(dates)} :
                      \A j \in 1..Len(dates) : dates[j].instant >= d.instant

\* The state of the loop over urls after its first n records; t is its
\* state before record n (bound in a set, so that it is computed once).
RECURSIVE Tally(_, _)
Tally(urls, n) ==
    IF n = 0 THEN [domains |-> <<>>, path_depths |-> <<>>]
    ELSE LET url == IF urls[n].loc = NoElem THEN "" ELSE urls[n].loc
             after(t) ==
                 [domains |-> DictInc(t.domains, urlparse(url).netloc),
                  path_depths |-> DictInc(t.path_depths, extract_path_components(url))]
         IN  CHOOSE r \in {after(t) : t \in {Tally(urls, n - 1)}} : TRUE

\* sum(...) / total_urls if total_urls > 0 else 0, as an exact fraction.
Fraction(num, den) == [num |-> num, den |-> den]
AvgDepth(path_depths, total_urls) ==
    IF total_urls > 0 THEN Fraction(WeightedSum(path_depths), total_urls)
    ELSE Fraction(0, 1)

AnalysisRaises(urls) ==
    \/ \E j \in 1..Len(urls) :
           urlparse(IF urls[j].loc = NoElem THEN "" ELSE urls[j].loc).raises
    \/ MixedDates(ParsedDates(urls))

NoStats == [total_urls |-> -1, domains |-> <<>>, main_domain |-> None,
            avg_depth |-> Fraction(0, 1), depth_distribution |-> <<>>,
            has_lastmod |-> FALSE, newest_page |-> NoElem, oldest_page |-> NoElem]

\* analyze_sitemap_structure(urls), when it returns.
analyze_sitemap_structure(urls) ==
    LET total_urls == Len(urls)
        last_modified_dates == ParsedDates(urls)
        stats(t) ==
            [total_urls |-> total_urls,
             domains |-> t.domains,
             main_domain |-> IF t.domains # <<>> THEN MaxItemKey(t.domains) ELSE None,
             avg_depth |-> AvgDepth(t.path_depths, total_urls),
             depth_distribution |-> t.path_depths,
             has_lastmod |-> Len(last_modified_dates) > 0,
             newest_page |-> IF last_modified_dates # <<>>
                             THEN MaxDate(last_modified_dates).day ELSE NoElem,
             oldest_page |-> IF last_modified_dates # <<>>
                             THEN MinDate(last_modified_dates).day ELSE NoElem]
    IN  CHOOSE r \in {stats(t) : t \in {Tally(urls, total_urls)}} : TRUE

\* ------------------------------------------- clusterer (openai_client.py)
max_retries == 3     \* attempts of the generation call
UrlSample == 100     \* urls[:100]

\* A JSON value of a 'count' field: t its type ("absent" = no such key), s
\* its text when it is a string (or the literal of a float), n its value
\* when it is an integer.
Count(t, s, n) == [t |-> t, s |-> s, n |-> n]
IntCount(n) == Count("int", "", n)

\* re.search(r'\d+', s) on the count strings of the model: the value of the
\* first run of digits, -1 when there is none.
FirstDigits(s) ==
    CASE s = "approximately 50 pages" -> 50
      [] s = "~120" -> 120
      [] s = "12 to 15" -> 12
      [] s = "-5" -> 5
      [] OTHER -> -1

\* lines 345-359
NormalizeCount(c) ==
    IF c.t = "absent" THEN IntCount(0)
    ELSE IF c.t = "str"
         THEN IntCount(IF FirstDigits(c.s) >= 0 THEN FirstDigits(c.s) ELSE 0)
    ELSE c

\* An entry of an examples list: a string, or an object with a url field.
\* The text of a URL is the sequence of its parts.
Example(obj, url) == [obj |-> obj, url |-> url]
\* A JSON value of a field that should be a list: t is "absent", "list" or
\* "other"; items the entries of a list.
Field(t, items) == [t |-> t, items |-> items]

\* An element of the 'clusters' list of a response; obj: it is a JSON object.
\* An absent string field is NoElem.
RawCluster(obj, title, count, examples, description, seo_significance, article_ideas) ==
    [obj |-> obj, title |-> title, count |-> count, examples |-> examples,
     description |-> description, seo_significance |-> seo_significance,
     article_ideas |-> article_ideas]

Cluster(title, count, examples, description, seo_significance, article_ideas) ==
    [title |-> title, count |-> count, examples |-> examples,
     description |-> description, seo_significance |-> seo_significance,
     article_ideas |-> article_ideas]

\* lines 340-379 on one cluster that is a JSON object
NormalizeCluster(c) ==
    LET title == IF c.title = NoElem THEN "Unnamed Cluster" ELSE c.title
    IN  Cluster(title,
                NormalizeCount(c.count),
                IF c.examples.t = "list" THEN c.examples.items ELSE <<>>,
                IF c.description = NoElem THEN "No description provided"
                ELSE c.description,
                IF c.seo_significance = NoElem THEN "No SEO significance provided"
                ELSE c.seo_significance,
                IF c.article_ideas.t = "list" THEN c.article_ideas.items
                ELSE [j \in 1..5 |-> <<"Article idea for", title>>])

\* cluster['title'] = ... on an element that is no JSON object: TypeError
NormalizationRaises(raw_clusters) ==
    \E j \in 1..Len(raw_clusters) : ~raw_clusters[j].obj

\* What json.loads finds in the content of a response: k is "notjson"
\* (JSONDecodeError), "noclusters" (no 'clusters' list) or "clusters".
Content(k, raw_clusters) == [k |-> k, clusters |-> raw_clusters]
\* What one call of client.chat.completions.create does: k is "answer",
\* "timeout", "rate_limit" or "error".
Outcome(k, content) == [k |-> k, content |-> content]
Answer(content) == Outcome("answer", content)
Fails(k) == Outcome(k, Content("notjson", <<>>))

\* lines 335-383: clusters_data of an answer that parsed as JSON
ClustersData(content) ==
    IF content.k = "clusters"
    THEN [j \in 1..Len(content.clusters) |-> NormalizeCluster(content.clusters[j])]
    ELSE <<>>

\* common_clusters: title, share of url_count as a fraction, example paths.
\* The description, seo_significance and the five article ideas of an entry
\* are fixed texts of the entry.
CommonCluster(title, num, den, paths) == [title |-> title, num |-> num, den |-> den, paths |-> paths]
common_clusters ==
    <<CommonCluster("Product Pages", 3, 10,
                    <<"/products/product-1", "/services/main-service", "/shop/featured">>),
      CommonCluster("Blog Articles", 1, 4,
                    <<"/blog/latest-post", "/articles/industry-news", "/news/updates">>),
      CommonCluster("About Pages", 1, 10, <<"/about-us", "/team", "/mission">>),
      CommonCluster("Support & FAQ", 3, 20, <<"/support", "/faq", "/help/getting-started">>),
      CommonCluster("Contact Information", 1, 20,
                    <<"/contact", "/locations", "/directions">>)>>

Max(a, b) == IF a >= b THEN a ELSE b
RECURSIVE SumCounts(_)
SumCounts(cs) == IF cs = <<>> THEN 0 ELSE Head(cs).count.n + SumCounts(Tail(cs))

\* get_mock_clusters(domain, url_count); sample is the order random.sample
\* drew.  int(x) of the non-negative quotients is the integer division.
\* (selected_clusters and total_allocated are bound in sets, so that each
\* is computed once.)
get_mock_clusters(domain, url_count, sample) ==
    LET entry(c) ==
            Cluster(c.title,
                    IntCount(Max(1, (url_count * c.num) \div c.den)),
                    [j \in 1..Len(c.paths) |-> Example(FALSE, <<domain, c.paths[j]>>)],
                    "description of the entry",
                    "seo_significance of the entry",
                    [j \in 1..5 |-> <<"article idea of", c.title>>])
        adjusted(selected_clusters, total_allocated) ==
            IF total_allocated > 0
            THEN [j \in 1..Len(selected_clusters) |->
                     [selected_clusters[j] EXCEPT !.count =
                         IntCount(Max(1, (selected_clusters[j].count.n * url_count)
                                             \div total_allocated))]]
            ELSE selected_clusters
        counted(selected_clusters) ==
            CHOOSE r \in {adjusted(selected_clusters, total_allocated) :
                             total_allocated \in {SumCounts(selected_clusters)}} : TRUE
    IN  CHOOSE r \in {counted(selected_clusters) :
                         selected_clusters \in
                             {[j \in 1..Len(sample) |-> entry(common_clusters[sample[j]])]}} :
            TRUE

\* What identify_topical_clusters returned and, as a record of the call:
\* source ("openai" or "mock"), the return statement taken (path), the URLs
\* put in the prompt, the number of generation calls made, and in order
\* every generation call ("call") and every time.sleep(retry_delay)
\* ("sleep").
Clustering(source, path, cluster_list, url_list, calls, events) ==
    [source |-> source, path |-> path, clusters |-> cluster_list,
     url_list |-> url_list, calls |-> calls, events |-> events]

RECURSIVE RetryLoopUncaught(_, _, _, _)
RetryLoopUncaught(gen, attempt, url_list, mock) ==
    IF attempt >= max_retries
    THEN Clustering("mock", "line 413", mock, url_list, attempt, <<>>)
    ELSE LET o == gen[attempt + 1]
             last == attempt = max_retries - 1
             again(path, pause) ==
                 IF last /\ path = "line 418"
                 THEN Clustering("raised", "line 388", <<>>, url_list, attempt + 1, <<"call">>)
                 ELSE IF last
                 THEN Clustering("mock", path, mock, url_list, attempt + 1, <<"call">>)
                 ELSE LET rest == RetryLoopUncaught(gen, attempt + 1, url_list, mock)
                      IN  [rest EXCEPT !.events = <<"call">> \o pause \o @]
         IN  IF o.k = "rate_limit"
             THEN Clustering("mock", "line 401", mock, url_list, attempt + 1, <<"call">>)
             ELSE IF o.k = "timeout" THEN again("line 394", <<"sleep">>)
             ELSE IF o.k # "answer" THEN again("line 408", <<"sleep">>)
             ELSE IF o.content.k = "notjson" THEN again("line 418", <<>>)
             ELSE IF o.content.k = "clusters" /\ NormalizationRaises(o.content.clusters)
                  THEN again("line 408", <<"sleep">>)
             ELSE Clustering("openai", "line 383", ClustersData(o.content),
                             url_list, attempt + 1, <<"call">>)

\* lines 309-413: the retry loop from attempt (0-based) on; gen[a + 1] is
\* what the generation call of attempt a does, mock what get_mock_clusters
\* returns.  A JSONDecodeError of the last attempt is raised again and
\* reaches the handler of line 415.  The handlers of lines 390 and 403
\* sleep before the next attempt, the handler of line 385 does not.
RECURSIVE RetryLoop(_, _, _, _)
RetryLoop(gen, attempt, url_list, mock) ==
    IF attempt >= max_retries
    THEN Clustering("mock", "line 413", mock, url_list, attempt, <<>>)
    ELSE LET o == gen[attempt + 1]
             last == attempt = max_retries - 1
             again(path, pause) ==
                 IF last
                 THEN Clustering("mock", path, mock, url_list, attempt + 1, <<"call">>)
                 ELSE LET rest == RetryLoop(gen, attempt + 1, url_list, mock)
                      IN  [rest EXCEPT !.events = <<"call">> \o pause \o @]
         IN  IF o.k = "rate_limit"
             THEN Clustering("mock", "line 401", mock, url_list, attempt + 1, <<"call">>)
             ELSE IF o.k = "timeout" THEN again("line 394", <<"sleep">>)
             ELSE IF o.k # "answer" THEN again("line 408", <<"sleep">>)
             ELSE IF o.content.k = "notjson" THEN again("line 418", <<>>)
             ELSE IF o.content.k = "clusters" /\ NormalizationRaises(o.content.clusters)
                  THEN again("line 408", <<"sleep">>)
             ELSE Clustering("openai", "line 383", ClustersData(o.content),
                             url_list, attempt + 1, <<"call">>)

\* identify_topical_clusters(urls, sitemap_stats): mock_mode is
\* USE_MOCK_DATA or not client.
identify_topical_clusters(urls, sitemap_stats, mock_mode, gen, sample) ==
    LET first == SubSeq(urls, 1, Min(UrlSample, Len(urls)))
        with_loc == SelectSeq(first, LAMBDA url : url.loc # NoElem)
        call(mock, url_list) ==
            IF mock_mode THEN Clustering("mock", "line 248", mock, <<>>, 0, <<>>)
            ELSE IF url_list = <<>> THEN Clustering("mock", "line 418", mock, <<>>, 0, <<>>)
            ELSE RetryLoop(gen, 0, url_list, mock)
    IN  CHOOSE r \in {call(mock, url_list) :
                         mock \in {get_mock_clusters(sitemap_stats.main_domain,
                                                     sitemap_stats.total_urls, sample)},
                         url_list \in {[j \in 1..Len(with_loc) |-> with_loc[j].loc]}} :
            TRUE

\* The orders random.sample(common_clusters, 5) can draw.
Samples == Permutations(1..Len(common_clusters))

\* ------------------------------------------------- the web the job fetches
SeqsUpTo(S, n) == UNION {[1..k -> S] : k \in 0..n}

\* What a URL serves: whether requests.get answers at all, and the response.
Served(net, resp) == [net |-> net, resp |-> resp]
Plain(body) == Served("ok", Response("no", FALSE, body))
Unreachable == Served("error", Response("no", FALSE, Body("empty", "none", <<>>)))

Entries(locs) == [j \in 1..Len(locs) |-> Elem(locs[j], NoElem)]
Index(locs) == Body("xml", "sitemapindex", Entries(locs))
Urlset(locs) == Body("xml", "urlset", Entries(locs))

IndexBodies(n) == {Index(locs) : locs \in SeqsUpTo(SitemapUrls \cup {NoElem}, n)}
NonXmlDocuments ==
    {Plain(Body("empty", "none", <<>>)),
     Served("ok", Response("valid", FALSE, Body("empty", "none", <<>>))),
     Plain(Body("garbage", "none", <<>>))}
PrimaryDocuments ==
    {Plain(b) : b \in IndexBodies(MaxEntries)}
        \cup {Plain(Urlset(<<>>)),
              Plain(Urlset(<<"https://d1.com/">>)),
              Plain(Urlset(<<"http://[bad">>)),
              Unreachable}
        \cup NonXmlDocuments
SubDocuments ==
    {Plain(Urlset(<<"https://d1.com/", "https://d2.com/blog/post.html">>)),
     Plain(Urlset(<<NoElem, "https://d1.com/", "https://d1.com/">>)),
     Plain(Urlset(<<"http://[bad">>)),
     Plain(Index(<<PrimaryUrl>>)),
     Plain(Index(<<SubUrl, SubUrl>>))}
        \cup NonXmlDocuments

\* --------------------------------------------------- the analysis job (app)
VARIABLES
    web,            \* what each sitemap URL serves
    sitemap_url,    \* the form value of the request
    pc,             \* where the run_analysis thread stands
    jobs,           \* jobs[job_id]: status, result, error
    xml_content,    \* run_analysis locals
    urls,
    sitemap_stats,
    clusters,
    stack,          \* the parse_sitemap calls in progress, outermost first
    stepsRun,       \* history: the pipeline calls made so far
    fetched,        \* history: <<index URL, entry position>> of each sub-fetch
    fetches,        \* history: number of sub-sitemap fetches
    returned,       \* history: the parts of the outermost parse_sitemap call
    input,          \* argument and result of a function run on its own
    output,
    done            \* the function run on its own has been applied

vars == <<web, sitemap_url, pc, jobs, xml_content, urls, sitemap_stats, clusters,
          stack, stepsRun, fetched, fetches, returned, input, output, done>>

\* Not assigned yet: the clusters local, jobs[job_id]['result'] = None.
NoClusters == Clustering("none", "none", <<>>, <<>>, 0, <<>>)
NoResult == [clusters |-> NoClusters, sitemap_url |-> "", sitemap_stats |-> NoStats]

\* request.form.get('sitemap_url', '').strip()
FormValues == {"site/sitemap.xml"}

\* 'https://' + url unless the scheme is there
NormalizeUrl(url) == IF url = "site/sitemap.xml" THEN "https://site/sitemap.xml" ELSE url

\* One parse_sitemap call on a sitemap index: the document's URL, its
\* sitemap_elements, the loop position, urls, and (history) what each
\* processed entry contributed.
Frame(url, elems) == [url |-> url, elems |-> elems, i |-> 1, urls |-> <<>>, parts |-> <<>>]
Part(pos, url, outcome, records) ==
    [pos |-> pos, url |-> url, outcome |-> outcome, records |-> records]
Step(call, raised) == [call |-> call, raised |-> raised]

Top == stack[Len(stack)]
SetTop(f) == [stack EXCEPT ![Len(stack)] = f]
InLoop == pc = "in_parse" /\ Top.i <= Len(ExpandedEntries(Top.elems))
EntryLoc == FindText(Top.elems[Top.i].loc)

\* The loop moves on to the next entry after adding sub_urls to urls.
Advance(f, outcome, sub_urls) ==
    [f EXCEPT !.i = f.i + 1,
              !.urls = Extend(f.urls, sub_urls),
              !.parts = Append(f.parts,
                               Part(f.i, FindText(f.elems[f.i].loc), outcome, sub_urls))]

\* The loop moves on after the handler of line 177 logged an error.
Skip(f, outcome) ==
    [f EXCEPT !.i = f.i + 1,
              !.parts = Append(f.parts,
                               Part(f.i, FindText(f.elems[f.i].loc), outcome, <<>>))]

Init ==
    /\ \E primary \in PrimaryDocuments, sub \in SubDocuments :
           web = [u \in SitemapUrls |->
                     IF u = PrimaryUrl THEN primary
                     ELSE IF u = SubUrl THEN sub
                     ELSE Unreachable]
    /\ sitemap_url \in FormValues
    /\ pc = "fetch"
    /\ jobs = [status |-> "pending", result |-> NoResult, error |-> None]
    /\ xml_content = NoContent
    /\ urls = <<>>
    /\ sitemap_stats = NoStats
    /\ clusters = NoClusters
    /\ stack = <<>>
    /\ stepsRun = <<>>
    /\ fetched = {}
    /\ fetches = 0
    /\ returned = <<>>
    /\ input = <<>>
    /\ output = <<>>
    /\ done = FALSE

\* requests.get(url) and what fetch_sitemap makes of the answer
Fetch(url) == fetch_sitemap(web[url].net, web[url].resp)

FailWithoutText(msg) ==
    /\ jobs' = jobs
    /\ pc' = "error_status"

\* jobs[job_id]['error'] = f"...: {str(e)}", the status assignment follows
Fail(msg) ==
    /\ jobs' = [jobs EXCEPT !.error = msg]
    /\ pc' = "error_status"

\* lines 59-66
FetchPrimaryRaises ==
    /\ pc = "fetch"
    /\ Fetch(NormalizeUrl(sitemap_url)).raised
    /\ Fail("Error fetching sitemap")
    /\ stepsRun' = Append(stepsRun, Step("fetch_sitemap", TRUE))
    /\ UNCHANGED <<web, sitemap_url, xml_content, urls, sitemap_stats, clusters,
                   stack, fetched, fetches, returned, input, output, done>>

FetchPrimaryReturns ==
    /\ pc = "fetch"
    /\ ~Fetch(NormalizeUrl(sitemap_url)).raised
    /\ xml_content' = Fetch(NormalizeUrl(sitemap_url)).content
    /\ pc' = "parse"
    /\ stepsRun' = Append(stepsRun, Step("fetch_sitemap", FALSE))
    /\ UNCHANGED <<web, sitemap_url, jobs, urls, sitemap_stats, clusters,
                   stack, fetched, fetches, returned, input, output, done>>

\* lines 68-75 with parse_sitemap raising at ET.fromstring
ParsePrimaryRaises ==
    /\ pc = "parse"
    /\ ~ParsesAsXml(xml_content)
    /\ Fail("Error parsing sitemap")
    /\ stepsRun' = Append(stepsRun, Step("parse_sitemap", TRUE))
    /\ UNCHANGED <<web, sitemap_url, xml_content, urls, sitemap_stats, clusters,
                   stack, fetched, fetches, returned, input, output, done>>

\* parse_sitemap on a URL set returns without further calls
ParsePrimaryUrlset ==
    /\ pc = "parse"
    /\ ParsesAsXml(xml_content)
    /\ ~is_sitemap_index(xml_content)
    /\ urls' = UrlsetRecords(xml_content.elems)
    /\ pc' = "analyze"
    /\ stepsRun' = Append(stepsRun, Step("parse_sitemap", FALSE))
    /\ UNCHANGED <<web, sitemap_url, jobs, xml_content, sitemap_stats, clusters,
                   stack, fetched, fetches, returned, input, output, done>>

\* parse_sitemap on a sitemap index enters the loop over sitemap_elements[:3]
ParsePrimaryIndex ==
    /\ pc = "parse"
    /\ ParsesAsXml(xml_content)
    /\ is_sitemap_index(xml_content)
    /\ stack' = <<Frame(NormalizeUrl(sitemap_url), xml_content.elems)>>
    /\ pc' = "in_parse"
    /\ stepsRun' = Append(stepsRun, Step("parse_sitemap", FALSE))
    /\ UNCHANGED <<web, sitemap_url, jobs, xml_content, urls, sitemap_stats,
                   clusters, fetched, fetches, returned, input, output, done>>

\* An error of the recursive fetch or parse reaches the handler of line 177:
\* logged, and the loop goes on; were it not caught it would leave every
\* enclosing parse_sitemap call and reach run_analysis.
SubSitemapError(outcome) ==
    IF SubSitemapErrorIsCaught
    THEN /\ stack' = SetTop(Skip(Top, outcome))
         /\ UNCHANGED <<pc, jobs>>
    ELSE /\ stack' = <<>>
         /\ Fail("Error parsing sitemap")

\* line 168: no loc, nothing to fetch
EntryWithoutLoc ==
    /\ InLoop
    /\ ~Truthy(EntryLoc)
    /\ stack' = SetTop([Top EXCEPT !.i = Top.i + 1])
    /\ UNCHANGED <<web, sitemap_url, pc, jobs, xml_content, urls, sitemap_stats,
                   clusters, stepsRun, fetched, fetches, returned, input, output, done>>

CanCall == Len(stack) < MaxDepth

\* the interpreter refuses a deeper call: RecursionError, an Exception
SubCallTooDeep ==
    /\ InLoop
    /\ Truthy(EntryLoc)
    /\ ~CanCall
    /\ SubSitemapError("RecursionError")
    /\ UNCHANGED <<web, sitemap_url, xml_content, urls, sitemap_stats, clusters,
                   stepsRun, fetched, fetches, returned, input, output, done>>

LogFetch ==
    /\ fetched' = fetched \cup {<<Top.url, Top.i>>}
    /\ fetches' = fetches + 1

SubContent == Fetch(EntryLoc)

\* line 174 raises
SubFetchRaises ==
    /\ InLoop
    /\ Truthy(EntryLoc)
    /\ CanCall
    /\ SubContent.raised
    /\ LogFetch
    /\ SubSitemapError("fetch raised")
    /\ UNCHANGED <<web, sitemap_url, xml_content, urls, sitemap_stats, clusters,
                   stepsRun, returned, input, output, done>>

\* line 175 raises at ET.fromstring
SubParseRaises ==
    /\ InLoop
    /\ Truthy(EntryLoc)
    /\ CanCall
    /\ ~SubContent.raised
    /\ ~ParsesAsXml(SubContent.content)
    /\ LogFetch
    /\ SubSitemapError("parse raised")
    /\ UNCHANGED <<web, sitemap_url, xml_content, urls, sitemap_stats, clusters,
                   stepsRun, returned, input, output, done>>

\* the sub-sitemap is a URL set: lines 174-176
SubUrlset ==
    /\ InLoop
    /\ Truthy(EntryLoc)
    /\ CanCall
    /\ ~SubContent.raised
    /\ ParsesAsXml(SubContent.content)
    /\ ~is_sitemap_index(SubContent.content)
    /\ LogFetch
    /\ stack' = SetTop(Advance(Top, "urlset", UrlsetRecords(SubContent.content.elems)))
    /\ UNCHANGED <<web, sitemap_url, pc, jobs, xml_content, urls, sitemap_stats,
                   clusters, stepsRun, returned, input, output, done>>

\* the sub-sitemap is itself an index: the recursive call starts its loop
SubIndex ==
    /\ InLoop
    /\ Truthy(EntryLoc)
    /\ CanCall
    /\ ~SubContent.raised
    /\ ParsesAsXml(SubContent.content)
    /\ is_sitemap_index(SubContent.content)
    /\ LogFetch
    /\ stack' = Append(stack, Frame(EntryLoc, SubContent.content.elems))
    /\ UNCHANGED <<web, sitemap_url, pc, jobs, xml_content, urls, sitemap_stats,
                   clusters, stepsRun, returned, input, output, done>>

LoopDone == pc = "in_parse" /\ Top.i > Len(ExpandedEntries(Top.elems))

\* line 271 in a recursive call, then line 176 in its caller
SubIndexReturns ==
    /\ LoopDone
    /\ Len(stack) > 1
    /\ stack' = [SubSeq(stack, 1, Len(stack) - 1) EXCEPT
                    ![Len(stack) - 1] = Advance(stack[Len(stack) - 1], "index", Top.urls)]
    /\ UNCHANGED <<web, sitemap_url, pc, jobs, xml_content, urls, sitemap_stats,
                   clusters, stepsRun, fetched, fetches, returned, input, output, done>>

\* line 271 in the outermost call
ParsePrimaryReturns ==
    /\ LoopDone
    /\ Len(stack) = 1
    /\ urls' = Top.urls
    /\ returned' = Top.parts
    /\ stack' = <<>>
    /\ pc' = "analyze"
    /\ UNCHANGED <<web, sitemap_url, jobs, xml_content, sitemap_stats, clusters,
                   stepsRun, fetched, fetches, input, output, done>>

\* lines 77-84
AnalyzeRaises ==
    /\ pc = "analyze"
    /\ AnalysisRaises(urls)
    /\ Fail("Error analyzing sitemap structure")
    /\ stepsRun' = Append(stepsRun, Step("analyze_sitemap_structure", TRUE))
    /\ UNCHANGED <<web, sitemap_url, xml_content, urls, sitemap_stats, clusters,
                   stack, fetched, fetches, returned, input, output, done>>

AnalyzeReturns ==
    /\ pc = "analyze"
    /\ ~AnalysisRaises(urls)
    /\ sitemap_stats' = analyze_sitemap_structure(urls)
    /\ pc' = "cluster"
    /\ stepsRun' = Append(stepsRun, Step("analyze_sitemap_structure", FALSE))
    /\ UNCHANGED <<web, sitemap_url, jobs, xml_content, urls, clusters,
                   stack, fetched, fetches, returned, input, output, done>>

\* The generation service of the job model: it times out at every call, or
\* answers every call with one cluster; and two of the orders random.sample
\* can draw.
JobCluster ==
    RawCluster(TRUE, "Blog", IntCount(7),
               Field("list", <<Example(FALSE, <<"https://d1.com/">>)>>),
               NoElem, NoElem, Field("absent", <<>>))
JobGenerations ==
    {[a \in 1..max_retries |-> Fails("timeout")],
     [a \in 1..max_retries |-> Answer(Content("clusters", <<JobCluster>>))]}
JobSamples == {<<1, 2, 3, 4, 5>>, <<5, 4, 3, 2, 1>>}

\* lines 86-88: identify_topical_clusters returns; it raises nothing, every
\* error inside it ends in get_mock_clusters.
IdentifyClusters ==
    /\ pc = "cluster"
    /\ \E mock_mode \in BOOLEAN, gen \in JobGenerations, sample \in JobSamples :
           clusters' = identify_topical_clusters(urls, sitemap_stats, mock_mode, gen, sample)
    /\ pc' = "store"
    /\ stepsRun' = Append(stepsRun, Step("identify_topical_clusters", FALSE))
    /\ UNCHANGED <<web, sitemap_url, jobs, xml_content, urls, sitemap_stats,
                   stack, fetched, fetches, returned, input, output, done>>

StoreNothing ==
    /\ pc = "store"
    /\ jobs' = jobs
    /\ pc' = "done_status"
    /\ UNCHANGED <<web, sitemap_url, xml_content, urls, sitemap_stats, clusters,
                   stack, stepsRun, fetched, fetches, returned, input, output, done>>

\* line 96
StoreResult ==
    /\ pc = "store"
    /\ jobs' = [jobs EXCEPT !.result = [clusters |-> clusters,
                                        sitemap_url |-> sitemap_url,
                                        sitemap_stats |-> sitemap_stats]]
    /\ pc' = "done_status"
    /\ UNCHANGED <<web, sitemap_url, xml_content, urls, sitemap_stats, clusters,
                   stack, stepsRun, fetched, fetches, returned, input, output, done>>

ExitWithoutStatus ==
    /\ pc = "done_status"
    /\ jobs' = jobs
    /\ pc' = "end"
    /\ UNCHANGED <<web, sitemap_url, xml_content, urls, sitemap_stats, clusters,
                   stack, stepsRun, fetched, fetches, returned, input, output, done>>

\* line 97
SetStatusDone ==
    /\ pc = "done_status"
    /\ jobs' = [jobs EXCEPT !.status = "done"]
    /\ pc' = "end"
    /\ UNCHANGED <<web, sitemap_url, xml_content, urls, sitemap_stats, clusters,
                   stack, stepsRun, fetched, fetches, returned, input, output, done>>

\* lines 65, 74, 83: the status follows the error text, then the thread ends
SetStatusError ==
    /\ pc = "error_status"
    /\ jobs' = [jobs EXCEPT !.status = "error"]
    /\ pc' = "end"
    /\ UNCHANGED <<web, sitemap_url, xml_content, urls, sitemap_stats, clusters,
                   stack, stepsRun, fetched, fetches, returned, input, output, done>>

Next ==
    \/ FetchPrimaryRaises
    \/ FetchPrimaryReturns
    \/ ParsePrimaryRaises
    \/ ParsePrimaryUrlset
    \/ ParsePrimaryIndex
    \/ EntryWithoutLoc
    \/ SubCallTooDeep
    \/ SubFetchRaises
    \/ SubParseRaises
    \/ SubUrlset
    \/ SubIndex
    \/ SubIndexReturns
    \/ ParsePrimaryReturns
    \/ AnalyzeRaises
    \/ AnalyzeReturns
    \/ IdentifyClusters
    \/ StoreResult
    \/ SetStatusDone
    \/ SetStatusError

Spec == Init /\ [][Next]_vars

\* The thread started at line 103 keeps running: every network call it
\* makes returns or raises (requests.get has timeout=30, the generation call
\* timeout=30), and no step of run_analysis waits for anything else.
MaxLiveEntries == 2  \* longest primary index of the fair runs

InitLive ==
    /\ Init
    /\ Len(web[PrimaryUrl].resp.body.elems) <= MaxLiveEntries

SpecLive == InitLive /\ [][Next]_vars /\ WF_vars(Next)

\* What a request made while the job runs is answered from the job store.
\* /analyze_status: the status of the job.
analyze_status == [status |-> jobs.status]
\* /results: the error page with the job's error, a redirect to the loading
\* page while the job is not done, else the results page from the result.
Page(name, result, error) == [page |-> name, result |-> result, error |-> error]
results ==
    IF jobs.status = "error" THEN Page("error", NoResult, jobs.error)
    ELSE IF jobs.status # "done" THEN Page("loading", NoResult, None)
    ELSE Page("results", jobs.result, None)

\* ------------------------------------------- the functions run on their own
jobVars == <<web, sitemap_url, pc, jobs, xml_content, urls, sitemap_stats, clusters,
             stack, stepsRun, fetched, fetches, returned>>

\* No request was made.
NoJob ==
    /\ web = [u \in SitemapUrls |-> Unreachable]
    /\ sitemap_url = ""
    /\ pc = "idle"
    /\ jobs = [status |-> "none", result |-> NoResult, error |-> None]
    /\ xml_content = NoContent
    /\ urls = <<>>
    /\ sitemap_stats = NoStats
    /\ clusters = NoClusters
    /\ stack = <<>>
    /\ stepsRun = <<>>
    /\ fetched = {}
    /\ fetches = 0
    /\ returned = <<>>

\* fetch_sitemap on every kind of response
MaxJsonItems == 2    \* longest JSON list served
MaxFetchElems == 1   \* longest XML document served

JsonItems == {Elem(NoElem, NoElem), Elem("https://d1.com/", NoElem),
              Elem("https://d1.com/a", "2024-01-05")}
FetchBodies ==
    {Body("empty", "none", <<>>), Body("blank", "none", <<>>),
     Body("garbage", "none", <<>>), Body("jsondict", "none", <<>>)}
    \cup {Body("jsonlist", "none", items) : items \in SeqsUpTo(JsonItems, MaxJsonItems)}
    \cup {Body("xml", "urlset", es) :
             es \in SeqsUpTo({Elem("https://d1.com/", NoElem), Elem(NoElem, NoElem)},
                             MaxFetchElems)}
    \cup {Body("xml", "sitemapindex", es) :
             es \in SeqsUpTo({Elem(SubUrl, NoElem), Elem(NoElem, NoElem)}, MaxFetchElems)}
FetchInputs ==
    [net : {"ok", "error"},
     resp : [gz : {"no", "valid", "corrupt"}, json : BOOLEAN, body : FetchBodies]]

InitFetch ==
    /\ NoJob
    /\ input \in FetchInputs
    /\ output = Raised
    /\ done = FALSE

FetchReturns ==
    /\ ~done
    /\ ~fetch_sitemap(input.net, input.resp).raised
    /\ output' = fetch_sitemap(input.net, input.resp)
    /\ done' = TRUE
    /\ UNCHANGED <<jobVars, input>>

FetchRaises ==
    /\ ~done
    /\ fetch_sitemap(input.net, input.resp).raised
    /\ output' = fetch_sitemap(input.net, input.resp)
    /\ done' = TRUE
    /\ UNCHANGED <<jobVars, input>>

NextFetch == FetchReturns \/ FetchRaises
SpecFetch == InitFetch /\ [][NextFetch]_vars

\* parse_sitemap on a URL set
MaxElems == 3        \* longest URL set parsed on its own

LocTexts == {NoElem, "", " ", "https://d1.com/", "https://d1.com/a", " https://d1.com/a "}
UrlElems == {Elem(l, m) : l \in LocTexts, m \in {NoElem, " 2024-01-05 "}}

InitUrlset ==
    /\ NoJob
    /\ input \in SeqsUpTo(UrlElems, MaxElems)
    /\ output = <<>>
    /\ done = FALSE

ParseUrlset ==
    /\ ~done
    /\ output' = UrlsetRecords(input)
    /\ done' = TRUE
    /\ UNCHANGED <<jobVars, input>>

NextUrlset == ParseUrlset
SpecUrlset == InitUrlset /\ [][NextUrlset]_vars

\* analyze_sitemap_structure on a list of URL records
MaxRecords == 3      \* longest record list analyzed on its own

AnalyzeLocs == {"https://d1.com/", "https://d1.com/a", "https://d2.com/blog/post.html",
                "https://d2.com/blog/.html", "https://d3.com/a//b/", "d1.com/page",
                "http://[bad"}
UrlRecords ==
    {Elem(l, m) : l \in AnalyzeLocs \cup {NoElem},
                  m \in {NoElem, "2024-01-05", "2024-01-01T23:00:00-05:00"}}

InitAnalyze ==
    /\ NoJob
    /\ input \in SeqsUpTo(UrlRecords, MaxRecords)
    /\ output = NoStats
    /\ done = FALSE

AnalyzeStats ==
    /\ ~done
    /\ ~AnalysisRaises(input)
    /\ output' = analyze_sitemap_structure(input)
    /\ done' = TRUE
    /\ UNCHANGED <<jobVars, input>>

AnalyzeThrows ==
    /\ ~done
    /\ AnalysisRaises(input)
    /\ output' = NoStats
    /\ done' = TRUE
    /\ UNCHANGED <<jobVars, input>>

NextAnalyze == AnalyzeStats \/ AnalyzeThrows
SpecAnalyze == InitAnalyze /\ [][NextAnalyze]_vars

\* analyze_sitemap_structure on records that differ in lastmod only
MaxDated == 3        \* longest record list of the date runs

Lastmods == {NoElem, "", "yesterday", "2024-01-05", "2023-06-01T10:00:00",
             "2024-01-01T23:00:00-05:00", "2024-01-02T01:00:00+05:00"}
DatedRecords == {Elem("https://d1.com/a", m) : m \in Lastmods}

InitDates ==
    /\ NoJob
    /\ input \in SeqsUpTo(DatedRecords, MaxDated)
    /\ output = NoStats
    /\ done = FALSE

SpecDates == InitDates /\ [][NextAnalyze]_vars

\* identify_topical_clusters on a list of URL records and their stats
MaxUrls == 101       \* longest URL list clustered on its own
MaxClusters == 2     \* longest 'clusters' list of an answer

\* n URL records of pages of d1.com, and what analyze_sitemap_structure
\* returns for them.
UrlList(n) == [j \in 1..n |-> UrlData(Elem("https://d1.com/a", NoElem))]
StatsOfUrlList(n) ==
    IF n = 0 THEN analyze_sitemap_structure(<<>>)
    ELSE [analyze_sitemap_structure(UrlList(1)) EXCEPT
             !.total_urls = n,
             !.domains = <<<<"d1.com", n>>>>,
             !.avg_depth = Fraction(n, n),
             !.depth_distribution = <<<<1, n>>>>]

PageUrl(u) == Example(FALSE, <<u>>)
BaseCluster ==
    RawCluster(TRUE, "Blog", IntCount(7), Field("list", <<PageUrl("https://d1.com/a")>>),
               "pages of the blog", "matters", Field("list", <<<<"a headline">>>>))
NoObject == [BaseCluster EXCEPT !.obj = FALSE]
RawCounts ==
    {Count("absent", "", 0), IntCount(7), Count("null", "", 0), Count("float", "12.5", 0)}
        \cup {Count("str", t, 0) : t \in {"approximately 50 pages", "~120", "many", "12 to 15"}}
RawExamples ==
    {Field("absent", <<>>), Field("other", <<>>), Field("list", <<>>),
     Field("list", <<PageUrl("https://d1.com/a"), PageUrl("https://d1.com/a")>>),
     Field("list", <<PageUrl("https://d1.com/a"), PageUrl("https://d1.com/b"),
                     PageUrl("https://d1.com/c"), PageUrl("https://d1.com/d")>>),
     Field("list", <<Example(TRUE, <<"https://d1.com/a">>)>>)}
RawClusters ==
    {[BaseCluster EXCEPT !.count = c] : c \in RawCounts}
        \cup {[BaseCluster EXCEPT !.title = t] : t \in {NoElem, "Product Pages", "Product Page"}}
        \cup {[BaseCluster EXCEPT !.examples = e] : e \in RawExamples}
        \cup {[BaseCluster EXCEPT !.description = NoElem],
              [BaseCluster EXCEPT !.seo_significance = NoElem],
              [BaseCluster EXCEPT !.article_ideas = Field("absent", <<>>)],
              [BaseCluster EXCEPT !.article_ideas = Field("other", <<>>)],
              NoObject}

Contents ==
    {Content("notjson", <<>>), Content("noclusters", <<>>)}
        \cup {Content("clusters", cl) : cl \in SeqsUpTo(RawClusters, MaxClusters)}
SimpleOutcomes ==
    {Fails("timeout"), Fails("rate_limit"), Fails("error"),
     Answer(Content("notjson", <<>>)),
     Answer(Content("clusters", <<BaseCluster>>)),
     Answer(Content("clusters", <<NoObject>>))}
Always(o) == [a \in 1..max_retries |-> o]

ClusterInput(n, mock_mode, gen) ==
    [urls |-> UrlList(n), sitemap_stats |-> StatsOfUrlList(n),
     mock_mode |-> mock_mode, gen |-> gen]
\* Every answer on three URLs; every length of the URL list with and
\* without mock mode; every course of three attempts on three URLs.
ClusterInputs ==
    {ClusterInput(3, FALSE, Always(Answer(c))) : c \in Contents}
        \cup {ClusterInput(n, m, g) :
                 n \in 0..MaxUrls, m \in BOOLEAN,
                 g \in {Always(Fails("timeout")),
                        Always(Answer(Content("clusters", <<BaseCluster>>)))}}
        \cup {ClusterInput(3, FALSE, g) : g \in [1..max_retries -> SimpleOutcomes]}

InitClusters ==
    /\ NoJob
    /\ input \in ClusterInputs
    /\ output = NoClusters
    /\ done = FALSE

ClusterUrls ==
    /\ ~done
    /\ \E sample \in Samples :
           output' = identify_topical_clusters(input.urls, input.sitemap_stats,
                                               input.mock_mode, input.gen, sample)
    /\ done' = TRUE
    /\ UNCHANGED <<jobVars, input>>

NextClusters == ClusterUrls
SpecClusters == InitClusters /\ [][NextClusters]_vars

\* identify_topical_clusters on every course of three attempts, and with no
\* client or no URL
RetryInputs ==
    {ClusterInput(3, FALSE, g) : g \in [1..max_retries -> SimpleOutcomes]}
        \cup {ClusterInput(n, m, Always(Fails("timeout"))) : n \in {0, 3}, m \in BOOLEAN}

InitRetry ==
    /\ NoJob
    /\ input \in RetryInputs
    /\ output = NoClusters
    /\ done = FALSE

SpecRetry == InitRetry /\ [][NextClusters]_vars

\* get_mock_clusters called twice with the same arguments
MaxUrlCount == 3     \* largest url_count of the calls

InitMock ==
    /\ NoJob
    /\ input \in [domain : {"d1.com", None}, url_count : 0..MaxUrlCount]
    /\ output = <<>>
    /\ done = FALSE

MockClusters ==
    /\ Len(output) < 2
    /\ \E sample \in Samples :
           output' = Append(output, get_mock_clusters(input.domain, input.url_count, sample))
    /\ done' = (Len(output) = 1)
    /\ UNCHANGED <<jobVars, input>>

NextMock == MockClusters
SpecMock == InitMock /\ [][NextMock]_vars

\* the declaration clean-up of parse_sitemap on every short text
MaxPieces == 6       \* longest text, in pieces

InitClean ==
    /\ NoJob
    /\ input \in SeqsUpTo({Opener, Closer, "x"}, MaxPieces)
    /\ output = <<>>
    /\ done = FALSE

CleanContent ==
    /\ ~done
    /\ output' = CleanDeclarations(input)
    /\ done' = TRUE
    /\ UNCHANGED <<jobVars, input>>

NextClean == CleanContent
SpecClean == InitClean /\ [][NextClean]_vars

\* ================================================================== claims
PrimaryIsIndex ==
    ParsesAsXml(xml_content) /\ is_sitemap_index(xml_content)
ParseReturned ==
    /\ Len(stepsRun) >= 2
    /\ ~stepsRun[2].raised
    /\ pc # "in_parse"

RECURSIVE Flatten(_)
Flatten(parts) ==
    IF parts = <<>> THEN <<>> ELSE Head(parts).records \o Flatten(Tail(parts))

\* C1: of a sitemap index only the entries at positions 1, 2 and 3 are ever
\* fetched, and an index with more entries is parsed without a parse error.
C1_OnlyFirstThreeFetched ==
    /\ \A f \in fetched : f[2] \in {1, 2, 3}
    /\ \A k \in 1..Len(stack) :
           \A j \in 1..Len(stack[k].parts) : stack[k].parts[j].pos \in {1, 2, 3}
    /\ PrimaryIsIndex => jobs.error # "Error parsing sitemap"

\* An index of 4 entries with locs was parsed: entries 1, 2 and 3 were fetched.
C1_Witness ==
    /\ PrimaryIsIndex
    /\ ParseReturned
    /\ Len(xml_content.elems) = 4
    /\ \A j \in 1..4 : Truthy(FindText(xml_content.elems[j].loc))
    /\ {f[2] : f \in {g \in fetched : g[1] = PrimaryUrl}} = {1, 2, 3}

FailedOutcomes == {"fetch raised", "parse raised", "RecursionError"}

\* C2: a sub-sitemap whose fetch or parse fails does not fail the parse of
\* the index: it adds no record, the records that the other children
\* returned stay in urls, and the index parse returns them.
C2_SubSitemapFailureSkipped ==
    /\ PrimaryIsIndex => jobs.error # "Error parsing sitemap"
    /\ \A k \in 1..Len(stack) :
           LET f == stack[k]
               good == SelectSeq(f.parts, LAMBDA p : p.outcome \notin FailedOutcomes)
           IN  /\ \A j \in 1..Len(f.parts) :
                      f.parts[j].outcome \in FailedOutcomes => f.parts[j].records = <<>>
               /\ f.urls = Flatten(good)
    /\ (PrimaryIsIndex /\ ParseReturned) =>
           urls = Flatten(SelectSeq(returned, LAMBDA p : p.outcome \notin FailedOutcomes))

\* The index parse returned records of one child although another failed.
C2_Witness ==
    /\ PrimaryIsIndex
    /\ ParseReturned
    /\ \E j \in 1..Len(returned) : returned[j].outcome = "fetch raised"
    /\ \E j \in 1..Len(returned) :
           returned[j].outcome = "urlset" /\ returned[j].records # <<>>
    /\ urls # <<>>

PrimaryFailed(j) ==
    stepsRun[j].raised /\ stepsRun[j].call \in {"fetch_sitemap", "parse_sitemap"}

\* C3: once the fetch or the parse of the primary sitemap raised, no later
\* pipeline call is made, the job carries the error text and no result, and
\* the thread leaves it in status error.
C3_PrimaryFailureIsFatal ==
    \A j \in 1..Len(stepsRun) :
        PrimaryFailed(j) =>
            /\ j = Len(stepsRun)
            /\ stepsRun[j].call = "fetch_sitemap" => jobs.error = "Error fetching sitemap"
            /\ stepsRun[j].call = "parse_sitemap" => jobs.error = "Error parsing sitemap"
            /\ jobs.result = NoResult
            /\ sitemap_stats = NoStats /\ clusters = NoClusters
            /\ jobs.status \in {"pending", "error"}
            /\ pc \in {"error_status", "end"}
            /\ pc = "end" => jobs.status = "error"

\* The job ended in error after the parse of the primary sitemap raised.
C3_Witness ==
    /\ pc = "end"
    /\ Len(stepsRun) = 2
    /\ PrimaryFailed(2)
    /\ jobs.status = "error"

\* The position of the entries is increasing along a list of parts.
Ordered(parts) == \A j \in 1..(Len(parts) - 1) : parts[j].pos < parts[j + 1].pos

\* What a URL set served at url contributes.
LeafRecords(url) == UrlsetRecords(Fetch(url).content.elems)

\* C4: the list an index parse builds is the concatenation, in entry order,
\* of what its expanded children returned, a URL set child returning its
\* records one per element in document order, duplicates included; an index
\* of one entry pointing at a URL set returns exactly that URL set's records.
C4_IndexIsConcatenation ==
    /\ \A k \in 1..Len(stack) :
           /\ Ordered(stack[k].parts)
           /\ stack[k].urls = Flatten(stack[k].parts)
           /\ \A j \in 1..Len(stack[k].parts) :
                  stack[k].parts[j].outcome = "urlset" =>
                      stack[k].parts[j].records = LeafRecords(stack[k].parts[j].url)
    /\ (PrimaryIsIndex /\ ParseReturned) =>
           /\ Ordered(returned)
           /\ urls = Flatten(returned)
           /\ (Len(returned) = 1 /\ returned[1].outcome = "urlset") =>
                  urls = LeafRecords(returned[1].url)

\* An index listed the same URL set twice and returned its two records twice.
C4_Witness ==
    /\ PrimaryIsIndex
    /\ ParseReturned
    /\ Len(returned) = 2
    /\ returned[1].outcome = "urlset" /\ returned[2].outcome = "urlset"
    /\ Len(returned[1].records) = 2
    /\ returned[1].records[1] # returned[1].records[2]
    /\ urls = returned[1].records \o returned[1].records

\* The URLs that serve a sitemap index.
IndexDocuments ==
    {u \in SitemapUrls :
        /\ ~Fetch(u).raised
        /\ ParsesAsXml(Fetch(u).content)
        /\ is_sitemap_index(Fetch(u).content)}

\* Sub-sitemap fetches of a parse that enters no index twice on one chain of
\* calls: 3 per index, over chains of at most as many indexes as exist.
RECURSIVE ChainFetches(_)
ChainFetches(n) == IF n = 0 THEN 0 ELSE 3 * (1 + ChainFetches(n - 1))
AcyclicFetchBound == ChainFetches(Cardinality(IndexDocuments))

LacksLoc(e) == e.loc \in {NoElem, "", " "}

\* C5: every record parse_sitemap returns for a URL set has a non-empty
\* loc; url elements without a loc, or with an empty or blank one, give no
\* record, so a URL set of such elements only gives the empty list.
C5_RecordsHaveLoc ==
    done =>
        /\ \A j \in 1..Len(output) : output[j].loc \notin {"", " ", None, NoElem}
        /\ Len(output) <= Len(input)
        /\ (\A j \in 1..Len(input) : LacksLoc(input[j])) => output = <<>>

\* Three url elements, none with a usable loc, were parsed to the empty list.
C5_Witness ==
    /\ done
    /\ Len(input) = 3
    /\ \A j \in 1..3 : LacksLoc(input[j])
    /\ \E j \in 1..3 : input[j].loc = NoElem
    /\ \E j \in 1..3 : input[j].loc = " "
    /\ output = <<>>

C8_NeverReturnsBlank ==
    (done /\ ~output.raised) => ~IsBlankText(output.content)

\* sum(domains.values())
RECURSIVE SumValues(_)
SumValues(d) == IF d = <<>> THEN 0 ELSE Head(d)[2] + SumValues(Tail(d))

\* C9: the counts of domains add up to total_urls, the number of records.
C9_DomainCountsSumToTotal ==
    (done /\ output # NoStats) =>
        /\ output.total_urls = Len(input)
        /\ SumValues(output.domains) = output.total_urls

\* Three records over two domains were analyzed.
C9_Witness ==
    /\ done
    /\ output # NoStats
    /\ output.total_urls = 3
    /\ Len(output.domains) = 2

\* The sum over the records of the number of path segments of the record.
RECURSIVE TotalDepth(_)
TotalDepth(records) ==
    IF records = <<>> THEN 0
    ELSE extract_path_components(IF Head(records).loc = NoElem THEN ""
                                 ELSE Head(records).loc)
             + TotalDepth(Tail(records))

\* C10: avg_depth times total_urls is the sum of the records' path-segment
\* counts (avg_depth as the exact quotient); avg_depth of no record is 0.
C10_AvgDepthIsMean ==
    (done /\ output # NoStats) =>
        /\ output.avg_depth.den # 0
        /\ output.avg_depth.num * output.total_urls
               = TotalDepth(input) * output.avg_depth.den
        /\ input = <<>> => output.avg_depth.num = 0

\* Records of depths 2, 2 and 0 were analyzed: the mean is 4/3.
C10_Witness ==
    /\ done
    /\ output # NoStats
    /\ output.total_urls = 3
    /\ TotalDepth(input) = 4
    /\ output.avg_depth = Fraction(4, 3)

\* The domain of a record and the number of records of the input with it.
DomainOf(r) == urlparse(IF r.loc = NoElem THEN "" ELSE r.loc).netloc
CountOf(d) == Cardinality({j \in 1..Len(input) : DomainOf(input[j]) = d})

\* C11: main_domain is the domain of some record, no domain has more records
\* than it has, and no domain with as many records occurs in the list before
\* its first record.
C11_MainDomainFirstMaximal ==
    (done /\ output # NoStats /\ input # <<>>) =>
        \E j \in 1..Len(input) :
            /\ DomainOf(input[j]) = output.main_domain
            /\ \A k \in 1..Len(input) :
                   /\ CountOf(DomainOf(input[k])) <= CountOf(output.main_domain)
                   /\ CountOf(DomainOf(input[k])) = CountOf(output.main_domain) => j <= k

\* Three records of three domains: the tie went to the domain of the first.
C11_Witness ==
    /\ done
    /\ output # NoStats
    /\ Len(input) = 3
    /\ DomainOf(input[1]) = "d2.com"
    /\ DomainOf(input[2]) = "d1.com"
    /\ DomainOf(input[3]) = "d3.com"
    /\ output.main_domain = "d2.com"

\* C12: analyze_sitemap_structure returns stats for every list of URL
\* records, whatever mix of lastmod formats they carry, and zeroed stats for
\* the empty list.
C12_AnalyzeNeverRaises ==
    done =>
        /\ output # NoStats
        /\ input = <<>> =>
               /\ output.total_urls = 0
               /\ output.domains = <<>> /\ output.depth_distribution = <<>>
               /\ output.avg_depth.num = 0
               /\ ~output.has_lastmod

\* C16: a job that made generation calls (the fallback mode was not
\* selected) is done only with the clusters a call returned: when every
\* attempt failed the job is not done with a fallback cluster set.
C16_ExhaustedRetriesPropagate ==
    (jobs.status = "done" /\ jobs.result.clusters.calls > 0) =>
        jobs.result.clusters.source = "openai"

\* The raw clusters of the answer that identify_topical_clusters returned.
Answered == done /\ output.source = "openai"
RawAnswered == input.gen[output.calls].content.clusters

\* C13: after normalization the count of every cluster is an integer: the
\* first run of digits of a string ("approximately 50 pages" gives 50,
\* "~120" gives 120), 0 for a string without digits and for a missing count.
C13_CountIsInteger ==
    (Answered /\ input.gen[output.calls].content.k = "clusters") =>
        \A j \in 1..Len(output.clusters) :
            LET raw == RawAnswered[j].count
                count == output.clusters[j].count
            IN  /\ count.t = "int"
                /\ raw.t = "absent" => count.n = 0
                /\ (raw.t = "str" /\ raw.s = "approximately 50 pages") => count.n = 50
                /\ (raw.t = "str" /\ raw.s = "~120") => count.n = 120
                /\ (raw.t = "str" /\ raw.s = "many") => count.n = 0

\* C14: whatever the raw clusters of an answer are, normalization of the
\* answer succeeds and gives one cluster per raw cluster with title,
\* description, count, examples, seo_significance and article_ideas present,
\* the title "Unnamed Cluster" when the raw cluster has none.
C14_NormalizationNeverFails ==
    (done /\ ~input.mock_mode /\ input.urls # <<>>
          /\ input.gen[1].k = "answer" /\ input.gen[1].content.k = "clusters") =>
        /\ output.source = "openai"
        /\ output.calls = 1
        /\ Len(output.clusters) = Len(input.gen[1].content.clusters)
        /\ \A j \in 1..Len(output.clusters) :
               /\ output.clusters[j].title # NoElem
               /\ output.clusters[j].description # NoElem
               /\ output.clusters[j].seo_significance # NoElem
               /\ output.clusters[j].article_ideas # <<>>
               /\ input.gen[1].content.clusters[j].title = NoElem
                      => output.clusters[j].title = "Unnamed Cluster"

\* C15: the examples of a normalized cluster are URL strings, without
\* duplicates, at most 3, and not empty when URLs were submitted.
C15_ExamplesNormalized ==
    Answered =>
        \A j \in 1..Len(output.clusters) :
            LET examples == output.clusters[j].examples
            IN  /\ \A k \in 1..Len(examples) : ~examples[k].obj
                /\ \A k, l \in 1..Len(examples) : examples[k] = examples[l] => k = l
                /\ Len(examples) <= 3
                /\ output.url_list # <<>> => examples # <<>>

\* C17: every URL record of the list is submitted to the generation
\* capability: the URLs put in the prompts are those of the records, each
\* one once.
C17_EveryUrlSubmitted ==
    (done /\ output.calls > 0) =>
        /\ Len(output.url_list) = Len(input.urls)
        /\ \A j \in 1..Len(input.urls) : output.url_list[j] = input.urls[j].loc

\* Title similarity above 0.8, on the titles of the model.
Similar(a, b) == a = b \/ {a, b} = {"Product Pages", "Product Page"}

\* C18: of two clusters of an answer, the second with a title similar to
\* the first's is merged into it: the returned set holds one cluster, whose
\* count is the sum of both counts, with at most 5 examples and no duplicate
\* among them; with titles that are not similar it holds both.
C18_SimilarTitlesMerged ==
    (Answered /\ input.gen[output.calls].content.k = "clusters"
              /\ Len(RawAnswered) = 2) =>
        LET first == NormalizeCluster(RawAnswered[1])
            second == NormalizeCluster(RawAnswered[2])
        IN  IF Similar(first.title, second.title)
            THEN /\ Len(output.clusters) = 1
                 /\ output.clusters[1].count.n = first.count.n + second.count.n
                 /\ Len(output.clusters[1].examples) <= 5
                 /\ \A k, l \in 1..Len(output.clusters[1].examples) :
                        output.clusters[1].examples[k] = output.clusters[1].examples[l]
                            => k = l
            ELSE Len(output.clusters) = 2

\* round(total / 30), halves to the even neighbour, and the clamp to 5..15
Round30(total) ==
    LET q == total \div 30
        r == total % 30
    IN  IF r < 15 THEN q ELSE IF r > 15 THEN q + 1 ELSE IF q % 2 = 0 THEN q ELSE q + 1
TargetCount(total) == Max(5, Min(15, Round30(total)))

\* C19: the clusters of the returned set are in order of non-increasing
\* count and there are at most clamp(round(total_urls / 30), 5, 15) of them.
C19_SortedAndCapped ==
    done =>
        /\ Len(output.clusters) <= TargetCount(input.sitemap_stats.total_urls)
        /\ \A j \in 1..(Len(output.clusters) - 1) :
               (output.clusters[j].count.t = "int" /\ output.clusters[j + 1].count.t = "int")
                   => output.clusters[j].count.n >= output.clusters[j + 1].count.n

\* C20: two runs of the fallback clustering on the same arguments return
\* the same cluster set, in the same order and with the same counts.
C20_FallbackIsDeterministic ==
    Len(output) = 2 => output[1] = output[2]

\* The declarations of a text: the openers closed by a "?>" before any
\* other opener.
Declarations(text) ==
    {i \in 1..Len(text) :
        /\ text[i] = Opener
        /\ \E j \in (i + 1)..Len(text) :
               /\ text[j] = Closer
               /\ \A k \in (i + 1)..(j - 1) : text[k] # Opener}

\* C21: after the clean-up the text handed to the XML parser holds at most
\* one XML declaration, however many the raw text holds.
C21_AtMostOneDeclaration ==
    done => Cardinality(Declarations(output)) <= 1

\* C22: when the response content type is application/json, what
\* fetch_sitemap returns is XML text, never the text of the body itself
\* when that is a JSON object or is not JSON.
C22_JsonIsConverted ==
    (done /\ input.net = "ok" /\ input.resp.gz = "no" /\ input.resp.json
          /\ ~output.raised)
        => output.content.k = "xml"

\* The order of the date strings printed by strftime('%Y-%m-%d').
DayNumber(day) ==
    CASE day = "2023-06-01" -> 20230601
      [] day = "2024-01-01" -> 20240101
      [] day = "2024-01-02" -> 20240102
      [] day = "2024-01-05" -> 20240105
      [] OTHER -> 0
ParsedDays(records) ==
    {strptime(records[j].lastmod).day :
        j \in {i \in 1..Len(records) :
                  HasLastmod(records[i]) /\ strptime(records[i].lastmod).ok}}

\* C23: in the stats has_lastmod is true exactly when some lastmod value
\* parsed; oldest_page and newest_page are present exactly then, are the
\* least and the greatest of the parsed dates, and oldest_page is not after
\* newest_page as a date string; unparseable values change nothing.
C23_DateRangeIsOrdered ==
    (done /\ ~AnalysisRaises(input)) =>
        /\ output.has_lastmod = (ParsedDays(input) # {})
        /\ (output.oldest_page # NoElem) = output.has_lastmod
        /\ (output.newest_page # NoElem) = output.has_lastmod
        /\ output.has_lastmod =>
               /\ output.oldest_page \in ParsedDays(input)
               /\ output.newest_page \in ParsedDays(input)
               /\ DayNumber(output.oldest_page) <= DayNumber(output.newest_page)
               /\ \A d \in ParsedDays(input) :
                      /\ DayNumber(output.oldest_page) <= DayNumber(d)
                      /\ DayNumber(d) <= DayNumber(output.newest_page)

\* An attempt that failed: the call raised or its content is not JSON.
Failed(o) == o.k # "answer" \/ o.content.k = "notjson"

\* C24: the generation call is made at most 3 times for one list of URLs;
\* every failed attempt but the third is followed by another attempt, and
\* the delay elapses between a failed attempt and the next one, whatever the
\* failure.
C24_RetriesWithDelay ==
    (done /\ ~input.mock_mode /\ output.url_list # <<>>) =>
        /\ output.calls <= max_retries
        /\ \A a \in 1..(max_retries - 1) :
               (a <= output.calls /\ Failed(input.gen[a])) => output.calls > a
        /\ \A j \in 1..(Len(output.events) - 1) :
               output.events[j] = "call" => output.events[j + 1] = "sleep"

\* The steps the status of a job takes.
StatusStep ==
    /\ jobs.status # "pending" => jobs'.status = jobs.status
    /\ jobs.status = "pending" => jobs'.status \in {"pending", "done", "error"}
\* What the job store holds for a finished job, at any moment a request
\* reads it.
StoreConsistent ==
    /\ jobs.status = "done" => (jobs.result # NoResult /\ jobs.error = None)
    /\ jobs.status = "error" => (jobs.error # None /\ jobs.result = NoResult)
    /\ analyze_status.status \in {"pending", "done", "error"}
    /\ results.page = "results" => results.result # NoResult
    /\ results.page = "error" => results.error # None

\* C25: the status of a job only moves from pending to done or from
\* pending to error and then stays; whenever a request reads the job, status
\* done comes with the result set and no error, status error with the error
\* set and no result.
C25_StatusIsFinal ==
    [](StoreConsistent) /\ [][StatusStep]_vars

\* The job is done and its result holds the stats of a non-empty URL list.
C25_Witness ==
    /\ pc = "end"
    /\ jobs.status = "done"
    /\ jobs.result.sitemap_stats.total_urls > 0
    /\ results.page = "results"

\* C26: every submitted job leaves the pending state: when each network
\* call of the pipeline returns or raises, the background analysis ends
\* with the status done or error.
C26_JobLeavesPending ==
    (jobs.status = "pending") ~> (jobs.status \in {"done", "error"})

\* The job left pending after sub-sitemap fetches and three generation
\* calls that timed out.
C26_Witness ==
    /\ jobs.status = "done"
    /\ fetches > 1
    /\ jobs.result.clusters.calls = max_retries

\* An attempt that ended in one of the handlers of lines 385-409.
FailedAttempt(o) ==
    Failed(o) \/ (o.content.k = "clusters" /\ NormalizationRaises(o.content.clusters))
RateLimited(o) == o.k = "rate_limit"
\* Some record among the first 100 has a loc.
HasUrl ==
    \E j \in 1..Min(UrlSample, Len(input.urls)) : input.urls[j].loc # NoElem
\* The call returned the mock clusters after n generation calls.
FallsBackAfter(n) ==
    /\ output.source = "mock"
    /\ Len(output.clusters) = Len(common_clusters)
    /\ output.calls = n

====
